---- MODULE Spec2Model ----
(***************************************************************************)
(* MCP Security Dashboard: the scan lifecycle (main.py), the SQLite store  *)
(* (database.py) and the scanner (scanner.py) as one state machine.        *)
(*                                                                         *)
(* Scheduling: every endpoint and the background task are coroutines on    *)
(* one event loop; the store's calls are synchronous.  A step of the model *)
(* is therefore the code between two suspension points.  run_scan_task     *)
(* suspends only inside scanner.scan, while the child process is awaited.  *)
(***************************************************************************)
EXTENDS Integers, Sequences, FiniteSets, TLC

VARIABLES
    mcp_scan_available, \* MCPScanner.mcp_scan_available, set by __init__
    scans,              \* table scans: scan_id -> row
    vulnerabilities,    \* table vulnerabilities: rows in insertion order
    tasks,              \* background tasks: scan_id -> position and outcome
    child,              \* scan_id -> state of the child process it spawned
    nextScan,           \* scan ids handed out so far (uuid4 in start_scan)
    nextUuid,           \* finding ids generated so far (uuid4 in scanner)
    now,                \* datetime.utcnow(), a logical clock
    call                \* a direct call of one scanner method: input and results

vars == <<mcp_scan_available, scans, vulnerabilities, tasks, child,
          nextScan, nextUuid, now, call>>

----------------------------------------------------------------------------
(* Bounds *)

MaxScans == 2

ScanIds == 1..MaxScans

----------------------------------------------------------------------------
(* Values *)

\* Python None / SQL NULL in a text column
NULL == "None"

\* completed_at IS NULL
NullTime == 0

\* str(uuid.uuid4()): the n-th identifier generated by this process
Uuid(n) == [src |-> "uuid4", n |-> n]

\* an "id" the external tool wrote in its JSON output
ExtId(n) == [src |-> "tool", n |-> n]

ScanType == {"url", "stdio", "config"}

RiskLevel == {"CRITICAL", "HIGH", "MEDIUM", "LOW", "INFO"}

\* the timeout when none is given
DefaultTimeout == 30

\* ScanRequest.options: absent, or a ScanOptions object
NoOptions == [present |-> FALSE]

DefaultOptions ==
    [present |-> TRUE, timeout |-> DefaultTimeout, auth_header |-> NULL,
     deep_scan |-> FALSE]

Targets == {"http://localhost:3001/mcp", "python server.py", "mcp.json"}

ScanRequests ==
    [target : Targets, scan_type : ScanType, options : {NoOptions, DefaultOptions}]

\* dict.get(key, default)
Get(d, k, default) == IF k \in DOMAIN d THEN d[k] ELSE default

----------------------------------------------------------------------------
(* scanner.py: the Pattern Detection Engine *)

\* INJECTION_PATTERNS: the label of each (pattern, label) pair, in list order
INJECTION_PATTERNS ==
    << "Instruction override attempt",
       "Hidden instruction detected",
       "XML-style hidden instructions",
       "Emphasis-based injection",
       "Pre/post execution hook",
       "Data exfiltration instruction",
       "Sensitive file access",
       "Security bypass attempt",
       "Email exfiltration vector",
       "Obfuscation technique" >>

\* SHADOWING_PATTERNS, in list order
SHADOWING_PATTERNS ==
    << "when\\s+this\\s+tool\\s+is\\s+available",
       "modify\\s+the\\s+behavior\\s+of",
       "instead\\s+of\\s+using\\s+\\w+,?\\s+use",
       "redirect\\s+(all\\s+)?(calls?|requests?)\\s+to",
       "the\\s+\\w+\\s+tool\\s+(should|must|will)" >>

\* _get_demo_tools that reads its argument: a config file lists fewer tools
_get_demo_tools_by_target(target) ==
    IF target = "mcp.json"
    THEN << [name |-> "calculateSum", inj |-> {2, 3, 5, 7}, shadow |-> {}] >>
    ELSE << [name |-> "calculateSum", inj |-> {2, 3, 5, 7}, shadow |-> {}],
            [name |-> "sendEmail",    inj |-> {2, 4},       shadow |-> {1}],
            [name |-> "fetchWeather", inj |-> {},           shadow |-> {}],
            [name |-> "readFile",     inj |-> {},           shadow |-> {}] >>

\* The same four tools for every target.  A description is represented by the
\* rules re.search finds in it (inj: indices into INJECTION_PATTERNS, shadow:
\* into SHADOWING_PATTERNS).
_get_demo_tools(target) ==
    << [name |-> "calculateSum", inj |-> {2, 3, 5, 7}, shadow |-> {}],
       [name |-> "sendEmail",    inj |-> {2, 4},       shadow |-> {1}],
       [name |-> "fetchWeather", inj |-> {},           shadow |-> {}],
       [name |-> "readFile",     inj |-> {},           shadow |-> {}] >>

\* re.search(pattern, description, re.IGNORECASE), for each rule in list order
InjectionMatches(tool) ==
    SelectSeq([i \in 1..Len(INJECTION_PATTERNS) |-> i], LAMBDA i : i \in tool.inj)

ShadowingMatches(tool) ==
    SelectSeq([i \in 1..Len(SHADOWING_PATTERNS) |-> i], LAMBDA i : i \in tool.shadow)

\* _extract_evidence: the window around the first match, between ellipses
_extract_evidence(tool, kind, i) ==
    "..." \o tool.name \o "/" \o kind \o ToString(i) \o "..."

InjectionFinding(tool, i, id) ==
    [ id                 |-> id,
      tool_name          |-> tool.name,
      vulnerability_type |-> "prompt_injection",
      risk_level         |-> "HIGH",
      description        |-> "Potential prompt injection: " \o INJECTION_PATTERNS[i],
      evidence           |-> _extract_evidence(tool, "inj", i),
      owasp_mapping      |-> "LLM01: Prompt Injection",
      remediation        |-> "Remove hidden instructions from tool description" ]

ShadowingFinding(tool, i, id) ==
    [ id                 |-> id,
      tool_name          |-> tool.name,
      vulnerability_type |-> "tool_shadowing",
      risk_level         |-> "CRITICAL",
      description        |-> "Tool attempts to modify behavior of other tools",
      evidence           |-> _extract_evidence(tool, "shadow", i),
      owasp_mapping      |-> "LLM01: Prompt Injection",
      remediation        |-> "Isolate tools and prevent cross-tool instruction injection" ]

\* _analyze_tool that leaves each loop at its first match
_analyze_tool_first_match(tool, u) ==
    LET inj == InjectionMatches(tool)
        sh  == ShadowingMatches(tool)
    IN  (IF inj = << >> THEN << >>
         ELSE <<InjectionFinding(tool, inj[1], Uuid(u + 1))>>)
        \o (IF sh = << >> THEN << >>
            ELSE <<ShadowingFinding(tool, sh[1], Uuid(u + 2))>>)

\* _analyze_tool: one finding per matching rule, injection rules first; u is
\* the number of uuids generated before the call
_analyze_tool(tool, u) ==
    LET inj == InjectionMatches(tool)
        sh  == ShadowingMatches(tool)
    IN  [k \in 1..(Len(inj) + Len(sh)) |->
            IF k <= Len(inj)
            THEN InjectionFinding(tool, inj[k], Uuid(u + k))
            ELSE ShadowingFinding(tool, sh[k - Len(inj)], Uuid(u + k))]

RECURSIVE AnalyzeTools(_, _)
AnalyzeTools(tools, u) ==
    IF tools = << >> THEN << >>
    ELSE LET first == _analyze_tool(Head(tools), u)
         IN  first \o AnalyzeTools(Tail(tools), u + Len(first))

\* scan_type and options are not read
_scan_with_patterns(target, scan_type, options, u) ==
    AnalyzeTools(_get_demo_tools(target), u)

----------------------------------------------------------------------------
(* scanner.py: the Finding Normalizer and the output parser *)

\* str.upper() on the strings the model's raw records carry
Upper(s) ==
    CASE s = "high"     -> "HIGH"
      [] s = "Critical" -> "CRITICAL"
      [] s = "medium"   -> "MEDIUM"
      [] s = "low"      -> "LOW"
      [] s = "info"     -> "INFO"
      [] s = "severe"   -> "SEVERE"
      [] OTHER          -> s

\* _normalize_finding that gives every finding an id of its own
_normalize_finding_new_id(item, u) ==
    LET risk == Get(item, "risk_level", Get(item, "severity", "MEDIUM"))
    IN  IF risk = NULL
        THEN [raised |-> TRUE, exc |-> "'NoneType' object has no attribute 'upper'"]
        ELSE [raised |-> FALSE,
              finding |->
                [ id                 |-> Uuid(u + 1),
                  tool_name          |-> Get(item, "tool_name", Get(item, "tool", "unknown")),
                  vulnerability_type |-> Get(item, "vulnerability_type", Get(item, "type", "unknown")),
                  risk_level         |-> Upper(risk),
                  description        |-> Get(item, "description", Get(item, "message", "")),
                  evidence           |-> Get(item, "evidence", Get(item, "details", NULL)),
                  owasp_mapping      |-> Get(item, "owasp_mapping", "LLM01: Prompt Injection"),
                  remediation        |-> Get(item, "remediation", Get(item, "fix", NULL)) ]]

\* _normalize_finding: item is a dict (a function from the keys it has).
\* uuid4() is evaluated whether or not item has an id.  A risk level that is
\* None has no .upper(): AttributeError.
_normalize_finding(item, u) ==
    LET risk == Get(item, "risk_level", Get(item, "severity", "MEDIUM"))
    IN  IF risk = NULL
        THEN [raised |-> TRUE, exc |-> "'NoneType' object has no attribute 'upper'"]
        ELSE [raised |-> FALSE,
              finding |->
                [ id                 |-> Get(item, "id", Uuid(u + 1)),
                  tool_name          |-> Get(item, "tool_name", Get(item, "tool", "unknown")),
                  vulnerability_type |-> Get(item, "vulnerability_type", Get(item, "type", "unknown")),
                  risk_level         |-> Upper(risk),
                  description        |-> Get(item, "description", Get(item, "message", "")),
                  evidence           |-> Get(item, "evidence", Get(item, "details", NULL)),
                  owasp_mapping      |-> Get(item, "owasp_mapping", "LLM01: Prompt Injection"),
                  remediation        |-> Get(item, "remediation", Get(item, "fix", NULL)) ]]

\* the JSON branch of _parse_mcp_scan_output: normalize each element in order
RECURSIVE NormalizeAll(_, _)
NormalizeAll(items, u) ==
    IF items = << >> THEN [raised |-> FALSE, findings |-> << >>, used |-> 0]
    ELSE LET n == _normalize_finding(Head(items), u)
         IN  IF n.raised THEN [raised |-> TRUE, exc |-> n.exc]
             ELSE LET rest == NormalizeAll(Tail(items), u + 1)
                  IN  IF rest.raised THEN rest
                      ELSE [raised |-> FALSE,
                            findings |-> <<n.finding>> \o rest.findings,
                            used |-> 1 + rest.used]

\* A line of stdout is represented by what the parser looks for in it:
\*   words: which of HIGH, CRITICAL, MEDIUM, injection, shadow, exfil,
\*          poisoning occur in it;  dash: line.strip().startswith("-");
\*   tool: what the regex of _extract_tool_name captures, NULL if no match;
\*   text: line.strip()

\* _extract_tool_name
_extract_tool_name(line) == IF line.tool = NULL THEN "unknown" ELSE line.tool

\* _extract_vuln_type
_extract_vuln_type(line) ==
    IF "injection" \in line.words THEN "prompt_injection"
    ELSE IF "shadow" \in line.words THEN "tool_shadowing"
    ELSE IF "exfil" \in line.words THEN "data_exfiltration"
    ELSE IF "poisoning" \in line.words THEN "tool_poisoning"
    ELSE "unknown"

\* the test of line 156 without its third operand
HasRiskKeywordNoMedium(line) ==
    "HIGH" \in line.words \/ "CRITICAL" \in line.words

\* scanner.py line 156
HasRiskKeyword(line) ==
    "HIGH" \in line.words \/ "CRITICAL" \in line.words \/ "MEDIUM" \in line.words

\* scanner.py line 160
LineRisk(line) ==
    IF "HIGH" \in line.words THEN "HIGH"
    ELSE IF "CRITICAL" \in line.words THEN "CRITICAL"
    ELSE "MEDIUM"

LineFinding(line, id) ==
    [ id                 |-> id,
      tool_name          |-> _extract_tool_name(line),
      vulnerability_type |-> _extract_vuln_type(line),
      risk_level         |-> LineRisk(line),
      description        |-> line.text,
      evidence           |-> NULL,
      owasp_mapping      |-> "LLM01: Prompt Injection",
      remediation        |-> "Review and sanitize tool descriptions" ]

\* scanner.py line 173: (evidence or "") + line.strip() + "\n"
AppendEvidence(vuln, line) ==
    [vuln EXCEPT !.evidence =
        (IF vuln.evidence = NULL THEN "" ELSE vuln.evidence) \o line.text \o "\n"]

\* The loop of the text branch.  acc: findings flushed so far; cur: the
\* in-progress finding as <<vuln>>, or << >> for None; u: uuids generated.
RECURSIVE ParseLines(_, _, _, _)
ParseLines(lines, acc, cur, u) ==
    IF lines = << >> THEN [findings |-> acc \o cur, used |-> u]
    ELSE LET line == Head(lines)
         IN  IF HasRiskKeyword(line)
             THEN ParseLines(Tail(lines), acc \o cur,
                             <<LineFinding(line, Uuid(u + 1))>>, u + 1)
             ELSE IF cur # << >> /\ line.dash
             THEN ParseLines(Tail(lines), acc,
                             <<AppendEvidence(cur[1], line)>>, u)
             ELSE ParseLines(Tail(lines), acc, cur, u)

\* stdout as json.loads sees it:
\*   [kind |-> "json_array", items |-> <<dict, ...>>]   a JSON array
\*   [kind |-> "json_other", lines |-> <<line, ...>>]   valid JSON, not an array
\*   [kind |-> "text", lines |-> <<line, ...>>]         JSONDecodeError
\*   [kind |-> "undecodable"]                         bytes that are not UTF-8

\* _parse_mcp_scan_output(stdout, stderr); stderr is not read
_parse_mcp_scan_output(stdout, u) ==
    IF stdout.kind = "json_array" THEN NormalizeAll(stdout.items, u)
    ELSE IF stdout.kind = "json_other"
    THEN [raised |-> FALSE, findings |-> << >>, used |-> 0]
    ELSE LET r == ParseLines(stdout.lines, << >>, << >>, u)
         IN  [raised |-> FALSE, findings |-> r.findings, used |-> r.used - u]

----------------------------------------------------------------------------
(* scanner.py: the External Tool Adapter and the orchestrator *)

\* scanner.py lines 94-101
BuildCmd(target, scan_type) ==
    <<"mcp-scan", "scan">> \o
    (IF scan_type = "url" THEN <<"--server-url", target>>
     ELSE IF scan_type = "config" THEN <<"--config", target>>
     ELSE IF scan_type = "stdio" THEN <<"--stdio", target>>
     ELSE << >>)

\* scan(): options = options or {}.  None becomes a dict; a ScanOptions object
\* is truthy and stays what it is, an object without a .get method.
OptionsIsDict(options) == ~options.present

\* scanner.py lines 121-131
TimeoutFinding(id, timeout) ==
    [ id                 |-> id,
      tool_name          |-> "scanner",
      vulnerability_type |-> "timeout",
      risk_level         |-> "INFO",
      description        |-> "Scan timed out after " \o ToString(timeout) \o " seconds",
      evidence           |-> NULL,
      owasp_mapping      |-> NULL,
      remediation        |-> "Try increasing timeout or check server availability" ]

\* What scan() gives its caller: a finding list or an exception.  via names
\* the path taken; used is the number of uuids the path generated.
Returned(findings, via, used) ==
    [raised |-> FALSE, findings |-> findings, exc |-> NULL, via |-> via, used |-> used]

Raised(exc) ==
    [raised |-> TRUE, findings |-> << >>, exc |-> exc, via |-> "raised", used |-> 0]

\* FallBackToPatterns that swallows the error and reports nothing
FallBackToNothing(req, u) == Returned(<< >>, "fallback", 0)

\* scanner.py lines 132-134: except Exception -> _scan_with_patterns
FallBackToPatterns(req, u) ==
    LET f == _scan_with_patterns(req.target, req.scan_type, req.options, u)
    IN  Returned(f, "fallback", Len(f))

\* scanner.py line 85: the tool is not available
PatternPath(req, u) ==
    LET f == _scan_with_patterns(req.target, req.scan_type, req.options, u)
    IN  Returned(f, "patterns", Len(f))

\* _scan_with_mcp_scan reached create_subprocess_exec: the coroutine suspends
Spawning ==
    [raised |-> FALSE, findings |-> << >>, exc |-> NULL, via |-> "spawn", used |-> 0]

\* Route with the test of the flag the wrong way round
RouteInverted(available, options) ==
    IF available THEN "patterns"
    ELSE IF ~OptionsIsDict(options) THEN "raised"
    ELSE "spawn"

\* The way scan() takes up to the first suspension: line 82 reads the flag
\* __init__ recorded; line 104, options.get("timeout", 30), stands before the
\* try of _scan_with_mcp_scan and raises AttributeError on a ScanOptions
\* object.
Route(available, options) ==
    IF ~available THEN "patterns"
    ELSE IF ~OptionsIsDict(options) THEN "raised"
    ELSE "spawn"

\* scan() and _scan_with_mcp_scan up to the first suspension
ScanUntilSpawn(available, req, u) ==
    IF Route(available, req.options) = "patterns" THEN PatternPath(req, u)
    ELSE IF Route(available, req.options) = "raised"
    THEN Raised("'ScanOptions' object has no attribute 'get'")
    ELSE Spawning

\* OnTimeout without the except clause: TimeoutError leaves scan()
OnTimeoutReraises(req, u) == Raised("TimeoutError")

\* scanner.py lines 121-131: except asyncio.TimeoutError.  options is {} on
\* this path, so timeout is the default of line 104.
OnTimeout(req, u) ==
    Returned(<<TimeoutFinding(Uuid(u + 1), DefaultTimeout)>>, "timeout", 1)

\* scanner.py lines 113-119 and 132-134: communicate() returned (stdout,
\* stderr); the return code of the process is not read
OnProcessExit(req, exit, u) ==
    IF exit.stdout.kind = "undecodable" THEN FallBackToPatterns(req, u)
    ELSE LET p == _parse_mcp_scan_output(exit.stdout, u)
         IN  IF p.raised THEN FallBackToPatterns(req, u)
             ELSE Returned(p.findings, "external", p.used)

\* scanner.py lines 106-111 and 132-134: create_subprocess_exec raised
OnSpawnError(req, u) == FallBackToPatterns(req, u)

----------------------------------------------------------------------------
(* database.py: the store.  db is [scans, vulnerabilities] as the one shared
   connection sees them.  Every method that writes ends in conn.commit(), and
   no step of the program ends between a write and the commit that follows. *)

\* create_scan
create_scan(sc, scan_id, target, scan_type, status, t) ==
    [s \in DOMAIN sc \cup {scan_id} |->
        IF s = scan_id
        THEN [ target       |-> target,
               scan_type    |-> scan_type,
               status       |-> status,
               started_at   |-> t,
               completed_at |-> NullTime,
               error        |-> NULL ]
        ELSE sc[s]]

\* UpdateScanRow with the WHERE clause left out: every row is updated
UpdateScanRowNoWhere(sc, scan_id, status, error, t) ==
    [s \in DOMAIN sc |->
        [sc[s] EXCEPT !.status = status, !.completed_at = t, !.error = error]]

\* update_scan, lines 104-108: UPDATE scans ... WHERE scan_id = ?
\* (no row with that scan_id: nothing is updated, nothing is raised)
UpdateScanRow(sc, scan_id, status, error, t) ==
    [s \in DOMAIN sc |->
        IF s = scan_id
        THEN [sc[s] EXCEPT !.status = status, !.completed_at = t, !.error = error]
        ELSE sc[s]]

\* one row of table vulnerabilities
VulnRow(vuln, scan_id) ==
    [ id                 |-> vuln.id,
      scan_id            |-> scan_id,
      tool_name          |-> vuln.tool_name,
      vulnerability_type |-> vuln.vulnerability_type,
      risk_level         |-> vuln.risk_level,
      description        |-> vuln.description,
      evidence           |-> vuln.evidence,
      owasp_mapping      |-> vuln.owasp_mapping,
      remediation        |-> vuln.remediation ]

\* update_scan, lines 111-128: one INSERT per finding, in order.  id is the
\* PRIMARY KEY of the table: an id already there raises IntegrityError, and
\* the rows inserted before it stay in the open transaction.  The schema's
\* FOREIGN KEY is not enforced (no PRAGMA foreign_keys), so the INSERT does
\* not look at table scans.

\* the INSERT of results[k] finds its id in the table: in a row that was there
\* before the loop, or in the row of an earlier finding of the list
IdTaken(rows, results, k) ==
    \/ \E i \in 1..Len(rows) : rows[i].id = results[k].id
    \/ \E j \in 1..(k - 1) : results[j].id = results[k].id

\* how many INSERTs succeed: all before the first that finds its id taken
InsertedCount(rows, results) ==
    IF \E k \in 1..Len(results) : IdTaken(rows, results, k)
    THEN (CHOOSE k \in 1..Len(results) :
            /\ IdTaken(rows, results, k)
            /\ \A j \in 1..(k - 1) : ~IdTaken(rows, results, j)) - 1
    ELSE Len(results)

InsertVulns(rows, results, scan_id) ==
    LET n == InsertedCount(rows, results)
    IN  [ rows   |-> rows \o [i \in 1..n |-> VulnRow(results[i], scan_id)],
          raised |-> n < Len(results),
          exc    |-> IF n < Len(results)
                     THEN "UNIQUE constraint failed: vulnerabilities.id"
                     ELSE NULL ]

\* update_scan(scan_id, status, results, error); results None is << >>
update_scan(db, scan_id, status, results, error, t) ==
    LET ins == InsertVulns(db.vulnerabilities, results, scan_id)
    IN  [ scans           |-> UpdateScanRow(db.scans, scan_id, status, error, t),
          vulnerabilities |-> ins.rows,
          raised          |-> ins.raised,
          exc             |-> ins.exc ]

\* SELECT * FROM vulnerabilities WHERE scan_id = ?
VulnsOf(rows, scan_id) == SelectSeq(rows, LAMBDA r : r.scan_id = scan_id)

\* CountRisk that forgets the comparison with the level
CountRiskAnyLevel(rows, level) == Len(rows)

\* len([v for v in vulnerabilities if v["risk_level"] == level])
CountRisk(rows, level) == Len(SelectSeq(rows, LAMBDA r : r.risk_level = level))

\* get_scan: None when there is no row
get_scan(db, scan_id) ==
    IF scan_id \notin DOMAIN db.scans THEN [found |-> FALSE]
    ELSE LET scan == db.scans[scan_id]
             vs   == VulnsOf(db.vulnerabilities, scan_id)
         IN  [ found           |-> TRUE,
               scan_id         |-> scan_id,
               target          |-> scan.target,
               scan_type       |-> scan.scan_type,
               status          |-> scan.status,
               started_at      |-> scan.started_at,
               completed_at    |-> scan.completed_at,
               vulnerabilities |-> vs,
               summary         |-> [ total    |-> Len(vs),
                                     critical |-> CountRisk(vs, "CRITICAL"),
                                     high     |-> CountRisk(vs, "HIGH"),
                                     medium   |-> CountRisk(vs, "MEDIUM"),
                                     low      |-> CountRisk(vs, "LOW") ],
               error           |-> scan.error ]

\* ORDER BY started_at DESC over the rows with these scan ids
RECURSIVE OrderByStartedAtDesc(_, _)
OrderByStartedAtDesc(sc, ids) ==
    IF ids = {} THEN << >>
    ELSE LET latest == CHOOSE x \in ids :
                          \A y \in ids : sc[y].started_at <= sc[x].started_at
         IN  <<latest>> \o OrderByStartedAtDesc(sc, ids \ {latest})

\* LIMIT ?: SQLite takes a negative LIMIT as no limit at all
Limit(rows, limit) ==
    IF limit < 0 \/ limit >= Len(rows) THEN rows ELSE SubSeq(rows, 1, limit)

\* list_scans(limit): per row a second query counts its findings (COUNT(*),
\* SUM(CASE WHEN risk_level = ... ), each "or 0"); no finding bodies
list_scans(db, limit) ==
    LET ids == Limit(OrderByStartedAtDesc(db.scans, DOMAIN db.scans), limit)
    IN  [i \in 1..Len(ids) |->
            LET scan == db.scans[ids[i]]
                vs   == VulnsOf(db.vulnerabilities, ids[i])
            IN  [ scan_id         |-> ids[i],
                  target          |-> scan.target,
                  scan_type       |-> scan.scan_type,
                  status          |-> scan.status,
                  started_at      |-> scan.started_at,
                  completed_at    |-> scan.completed_at,
                  vulnerabilities |-> << >>,
                  summary         |-> [ total    |-> Len(vs),
                                        critical |-> CountRisk(vs, "CRITICAL"),
                                        high     |-> CountRisk(vs, "HIGH"),
                                        medium   |-> CountRisk(vs, "MEDIUM"),
                                        low      |-> CountRisk(vs, "LOW") ],
                  error           |-> scan.error ]]

\* how many ticks of the model's clock make a day
TicksPerDay == 2

\* DATE(started_at); datetime.utcnow().date()
DateOf(t) == t \div TicksPerDay

\* get_stats: three queries; the third counts every row of table
\* vulnerabilities, without a join on table scans
get_stats(db, t) ==
    [ total_scans           |-> Cardinality(DOMAIN db.scans),
      scans_today           |-> Cardinality({ s \in DOMAIN db.scans :
                                    DateOf(db.scans[s].started_at) = DateOf(t) }),
      total_vulnerabilities |-> Len(db.vulnerabilities),
      critical_count        |-> CountRisk(db.vulnerabilities, "CRITICAL"),
      high_count            |-> CountRisk(db.vulnerabilities, "HIGH") ]

\* delete_scan that runs its DELETEs before it looks for the record
delete_scan_unchecked(db, scan_id) ==
    [ scans           |-> [s \in DOMAIN db.scans \ {scan_id} |-> db.scans[s]],
      vulnerabilities |-> SelectSeq(db.vulnerabilities,
                                    LAMBDA r : r.scan_id # scan_id),
      ok              |-> scan_id \in DOMAIN db.scans ]

\* delete_scan: False when there is no row, else both DELETEs
delete_scan(db, scan_id) ==
    IF scan_id \notin DOMAIN db.scans
    THEN [scans |-> db.scans, vulnerabilities |-> db.vulnerabilities, ok |-> FALSE]
    ELSE [ scans           |-> [s \in DOMAIN db.scans \ {scan_id} |-> db.scans[s]],
           vulnerabilities |-> SelectSeq(db.vulnerabilities,
                                         LAMBDA r : r.scan_id # scan_id),
           ok              |-> TRUE ]

----------------------------------------------------------------------------
(* main.py: run_scan_task after scanner.scan has returned or raised *)

\* StoreOutcome without the except clause: when scan() raises, the exception
\* leaves run_scan_task and nothing is written
StoreOutcomeNoExcept(db, scan_id, ret, t) ==
    IF ret.raised
    THEN [scans |-> db.scans, vulnerabilities |-> db.vulnerabilities,
          raised |-> TRUE, exc |-> ret.exc]
    ELSE LET done == update_scan(db, scan_id, "completed", ret.findings, NULL, t)
         IN  IF done.raised
             THEN update_scan([scans |-> done.scans,
                              vulnerabilities |-> done.vulnerabilities],
                             scan_id, "failed", << >>, done.exc, t)
             ELSE done

\* StoreOutcome that records the failure without its message
StoreOutcomeNoError(db, scan_id, ret, t) ==
    IF ret.raised
    THEN update_scan(db, scan_id, "failed", << >>, NULL, t)
    ELSE LET done == update_scan(db, scan_id, "completed", ret.findings, NULL, t)
         IN  IF done.raised
             THEN update_scan([scans |-> done.scans,
                              vulnerabilities |-> done.vulnerabilities],
                             scan_id, "failed", << >>, NULL, t)
             ELSE done

\* StoreOutcome with update_scan("completed") outside the try: what it raises
\* is not caught, and the next commit on the connection keeps what it wrote
StoreOutcomeNoCatch(db, scan_id, ret, t) ==
    IF ret.raised
    THEN update_scan(db, scan_id, "failed", << >>, ret.exc, t)
    ELSE update_scan(db, scan_id, "completed", ret.findings, NULL, t)

\* main.py lines 82-94: update_scan("completed", results) inside the try;
\* whatever it raises is caught with the exception scan() may have raised,
\* and update_scan("failed", error=str(e)) runs on the same connection.
StoreOutcome(db, scan_id, ret, t) ==
    IF ret.raised
    THEN update_scan(db, scan_id, "failed", << >>, ret.exc, t)
    ELSE LET done == update_scan(db, scan_id, "completed", ret.findings, NULL, t)
         IN  IF done.raised
             THEN update_scan([scans |-> done.scans,
                              vulnerabilities |-> done.vulnerabilities],
                             scan_id, "failed", << >>, done.exc, t)
             ELSE done

----------------------------------------------------------------------------
(* What the child process can do: the inputs of the model *)

ItemWithId ==
    [id |-> ExtId(1), tool |-> "sendEmail", type |-> "tool_poisoning",
     severity |-> "high", message |-> "hidden instruction"]

ItemWithoutId ==
    [tool_name |-> "readFile", risk_level |-> "Critical", details |-> "excerpt"]

ItemNullSeverity == [id |-> ExtId(2), severity |-> NULL]

\* a severity word of the tool's own
ItemSevere == [tool |-> "readFile", severity |-> "severe", message |-> "reads any path"]

LineCriticalHigh ==
    [words |-> {"CRITICAL", "HIGH", "injection"}, dash |-> FALSE,
     tool |-> "sendEmail", text |-> "CRITICAL HIGH injection Tool: sendEmail"]

LineDash ==
    [words |-> {}, dash |-> TRUE, tool |-> NULL, text |-> "- forwards mail"]

LineEmpty == [words |-> {}, dash |-> FALSE, tool |-> NULL, text |-> ""]

\* "".split('\n') is ['']
EmptyStdout == [kind |-> "text", lines |-> <<LineEmpty>>]

LineMedium ==
    [words |-> {"MEDIUM", "shadow"}, dash |-> FALSE,
     tool |-> NULL, text |-> "MEDIUM shadowing suspected"]

JsonTwoFindings == [kind |-> "json_array", items |-> <<ItemWithoutId, ItemWithId>>]

JsonSameIdTwice == [kind |-> "json_array", items |-> <<ItemWithId, ItemWithId>>]

JsonNullSeverity == [kind |-> "json_array", items |-> <<ItemNullSeverity>>]

JsonSevere == [kind |-> "json_array", items |-> <<ItemSevere>>]

LineJsonObject ==
    [words |-> {}, dash |-> FALSE, tool |-> NULL, text |-> "{\"status\": \"ok\"}"]

\* valid JSON that is an object; split('\n') gives its one line
JsonObject == [kind |-> "json_other", lines |-> <<LineJsonObject>>]

\* every output the model lets the child write
Stdouts ==
    { JsonTwoFindings, JsonSameIdTwice, JsonNullSeverity, JsonSevere,
      [kind |-> "json_array", items |-> << >>],
      JsonObject,
      [kind |-> "text", lines |-> <<LineCriticalHigh, LineDash>>],
      [kind |-> "text", lines |-> <<LineDash, LineMedium, LineCriticalHigh>>],
      EmptyStdout,
      [kind |-> "undecodable"] }

\* how the child can end: with status 0 and any of the outputs, or crashing
\* (non-zero status) having written nothing, or only part of its report
ProcessExits ==
    { [returncode |-> 0, stdout |-> out] : out \in Stdouts }
    \cup { [returncode |-> 1, stdout |-> EmptyStdout],
           [returncode |-> 1, stdout |-> [kind |-> "text", lines |-> <<LineMedium>>]] }

\* the exits used when several scans run side by side: one of each kind of
\* result the store can be handed
LifecycleExits ==
    { [returncode |-> 0, stdout |-> JsonTwoFindings],
      [returncode |-> 0, stdout |-> JsonSameIdTwice],
      [returncode |-> 0, stdout |-> JsonNullSeverity],
      [returncode |-> 1, stdout |-> EmptyStdout] }

\* the requests used when several scans run side by side
LifecycleRequests ==
    { [target |-> "http://localhost:3001/mcp", scan_type |-> "url",
       options |-> NoOptions],
      [target |-> "python server.py", scan_type |-> "stdio",
       options |-> DefaultOptions] }

----------------------------------------------------------------------------
(* The state machine *)

NoReturn ==
    [raised |-> FALSE, findings |-> << >>, exc |-> NULL, via |-> "none", used |-> 0]

NoEvent == [kind |-> "none"]

Db == [scans |-> scans, vulnerabilities |-> vulnerabilities]

\* no direct call of a scanner method is being made
NoCall == [fn |-> "none"]

\* the process after main.py was imported: the flag probed, the tables empty
ProcessStarted ==
    /\ mcp_scan_available \in BOOLEAN
    /\ scans = [s \in {} |-> NULL]
    /\ vulnerabilities = << >>
    /\ tasks = [s \in {} |-> NULL]
    /\ child = [s \in ScanIds |-> [state |-> "none", cmd |-> << >>, spawns |-> 0]]
    /\ nextScan = 0
    /\ nextUuid = 0
    /\ now = 1

Init == ProcessStarted /\ call = NoCall

\* POST /api/scan: start_scan
start_scan(req) ==
    /\ nextScan < MaxScans
    /\ LET scan_id == nextScan + 1
       IN  /\ scans' = create_scan(scans, scan_id, req.target, req.scan_type,
                                  "running", now)
           /\ tasks' = [s \in DOMAIN tasks \cup {scan_id} |->
                          IF s = scan_id
                          THEN [pc |-> "pending", request |-> req,
                                ret |-> NoReturn, event |-> NoEvent,
                                pattern_runs |-> 0]
                          ELSE tasks[s]]
    /\ nextScan' = nextScan + 1
    /\ now' = now + 1
    /\ UNCHANGED <<mcp_scan_available, vulnerabilities, child, nextUuid, call>>

\* how many times _scan_with_patterns ran on the way to ret: once on line 85
\* (tool not available), once in the except clause of line 134
PatternRuns(ret) == IF ret.via \in {"patterns", "fallback"} THEN 1 ELSE 0

\* run_scan_task from the point where scanner.scan returned ret or raised:
\* the store is updated and the task ends, with no suspension in between.
\* The clock is read, not advanced: only the order of the started_at values
\* is modelled, and completed_at is some time not before started_at.
FinishTask(s, ret, event) ==
    /\ tasks' = [tasks EXCEPT ![s].pc = "done", ![s].ret = ret,
                              ![s].event = event,
                              ![s].pattern_runs = @ + PatternRuns(ret)]
    /\ nextUuid' = nextUuid + ret.used
    /\ \E out \in {StoreOutcome(Db, s, ret, now)} :
           /\ scans' = out.scans
           /\ vulnerabilities' = out.vulnerabilities
    /\ UNCHANGED <<mcp_scan_available, nextScan, now, call>>

\* run_scan_task, tool not available: scan() runs the pattern engine
RunPatternScan(s) ==
    /\ s \in DOMAIN tasks /\ tasks[s].pc = "pending"
    /\ Route(mcp_scan_available, tasks[s].request.options) = "patterns"
    /\ \E ret \in {ScanUntilSpawn(mcp_scan_available, tasks[s].request, nextUuid)} :
           FinishTask(s, ret, NoEvent)
    /\ UNCHANGED child

\* run_scan_task, tool available, options is a ScanOptions object:
\* scanner.py line 104, options.get, raises AttributeError outside the try
RunScanRaises(s) ==
    /\ s \in DOMAIN tasks /\ tasks[s].pc = "pending"
    /\ Route(mcp_scan_available, tasks[s].request.options) = "raised"
    /\ \E ret \in {ScanUntilSpawn(mcp_scan_available, tasks[s].request, nextUuid)} :
           FinishTask(s, ret, NoEvent)
    /\ UNCHANGED child

\* SpawnFails that tries again: after the OSError the task is where it was
\* before create_subprocess_exec
SpawnFailsAndRetries(s) ==
    /\ s \in DOMAIN tasks /\ tasks[s].pc = "pending"
    /\ Route(mcp_scan_available, tasks[s].request.options) = "spawn"
    /\ child' = [child EXCEPT ![s].spawns = @ + 1]
    /\ UNCHANGED <<mcp_scan_available, scans, vulnerabilities, tasks, nextScan,
                   nextUuid, now, call>>

\* create_subprocess_exec raises (OSError): fall back to the pattern engine
SpawnFails(s) ==
    /\ s \in DOMAIN tasks /\ tasks[s].pc = "pending"
    /\ Route(mcp_scan_available, tasks[s].request.options) = "spawn"
    /\ \E ret \in {OnSpawnError(tasks[s].request, nextUuid)} :
           FinishTask(s, ret, [kind |-> "spawn_error"])
    /\ child' = [child EXCEPT ![s].spawns = @ + 1]

\* create_subprocess_exec succeeds; the task suspends in wait_for
SpawnChild(s) ==
    /\ s \in DOMAIN tasks /\ tasks[s].pc = "pending"
    /\ Route(mcp_scan_available, tasks[s].request.options) = "spawn"
    /\ tasks' = [tasks EXCEPT ![s].pc = "awaiting"]
    /\ child' = [child EXCEPT ![s] =
                   [state |-> "running",
                    cmd |-> BuildCmd(tasks[s].request.target,
                                     tasks[s].request.scan_type),
                    spawns |-> @.spawns + 1]]
    /\ UNCHANGED <<mcp_scan_available, scans, vulnerabilities, nextScan,
                   nextUuid, now, call>>

\* the child exits before the timeout: communicate() returns its output
ProcessExit(s, exit) ==
    /\ s \in DOMAIN tasks /\ tasks[s].pc = "awaiting"
    /\ \E ret \in {OnProcessExit(tasks[s].request, exit, nextUuid)} :
           FinishTask(s, ret, [kind |-> "exit", returncode |-> exit.returncode,
                               stdout |-> exit.stdout])
    /\ child' = [child EXCEPT ![s].state = "exited"]

\* the timeout fires first: wait_for cancels communicate() and raises
\* TimeoutError; nothing in the handler touches the process
WaitTimesOut(s) ==
    /\ s \in DOMAIN tasks /\ tasks[s].pc = "awaiting"
    /\ \E ret \in {OnTimeout(tasks[s].request, nextUuid)} :
           FinishTask(s, ret, [kind |-> "timeout"])
    /\ child' = child

\* a child left running ends on its own
OrphanExits(s) ==
    /\ s \in DOMAIN tasks /\ tasks[s].pc = "done" /\ child[s].state = "running"
    /\ child' = [child EXCEPT ![s].state = "exited"]
    /\ UNCHANGED <<mcp_scan_available, scans, vulnerabilities, tasks, nextScan,
                   nextUuid, now, call>>

\* DELETE /api/scan/{scan_id}: answers 404 when delete_scan returns False
DeleteScan(scan_id) ==
    LET out == delete_scan(Db, scan_id)
    IN  /\ scans' = out.scans
        /\ vulnerabilities' = out.vulnerabilities
        /\ UNCHANGED <<mcp_scan_available, tasks, child, nextScan, nextUuid, now,
                       call>>

\* GET /api/scan/{scan_id}: answers get_scan(Db, scan_id), or 404 when it is
\* None.  A read runs between two steps of the other handlers and writes
\* nothing, so what a reader can observe is get_scan(Db, scan_id) in some
\* reachable state.
get_scan_results(scan_id) ==
    /\ get_scan(Db, scan_id).found \in BOOLEAN
    /\ UNCHANGED vars

\* GET /api/scans?limit=: limit is any int (default 20); answers
\* list_scans(Db, limit) and writes nothing
ListScans(limit) ==
    /\ Len(list_scans(Db, limit)) <= Cardinality(DOMAIN scans)
    /\ UNCHANGED vars

\* the limits a client asks for
ListLimits == {-1, 0, 1, 2, 20}

\* GET /api/stats: answers get_stats() and writes nothing
GetStats ==
    /\ get_stats(Db, now).total_scans = Cardinality(DOMAIN scans)
    /\ UNCHANGED vars

Next ==
    \/ \E req \in LifecycleRequests : start_scan(req)
    \/ \E s \in ScanIds : RunPatternScan(s)
    \/ \E s \in ScanIds : RunScanRaises(s)
    \/ \E s \in ScanIds : SpawnFails(s)
    \/ \E s \in ScanIds : SpawnChild(s)
    \/ \E s \in ScanIds : \E exit \in LifecycleExits : ProcessExit(s, exit)
    \/ \E s \in ScanIds : WaitTimesOut(s)
    \/ \E s \in ScanIds : OrphanExits(s)
    \/ \E id \in ScanIds : DeleteScan(id)
    \/ \E id \in ScanIds : get_scan_results(id)
    \/ \E limit \in ListLimits : ListScans(limit)
    \/ GetStats

\* several scans side by side
Spec == Init /\ [][Next]_vars

\* run_scan_task between its start and the first suspension
TaskStep(s) ==
    RunPatternScan(s) \/ RunScanRaises(s) \/ SpawnFails(s) \/ SpawnChild(s)

\* asyncio.wait_for(process.communicate(), timeout) returns or raises
AwaitEnds(s) ==
    WaitTimesOut(s) \/ \E exit \in LifecycleExits : ProcessExit(s, exit)

\* Scheduling: the event loop runs every background task that was added, and
\* wait_for ends when the child exits or when its timer fires, whichever is
\* first.  Requests (start, delete, read) need not arrive.
Fairness ==
    \A s \in ScanIds : WF_vars(TaskStep(s)) /\ WF_vars(AwaitEnds(s))

LiveSpec == Init /\ [][Next]_vars /\ Fairness

\* one scan, with every request and every way the child can end
StartFirstScan(req) == nextScan = 0 /\ start_scan(req)

SingleScanNext ==
    \/ \E req \in ScanRequests : StartFirstScan(req)
    \/ \E s \in ScanIds : RunPatternScan(s)
    \/ \E s \in ScanIds : RunScanRaises(s)
    \/ \E s \in ScanIds : SpawnFails(s)
    \/ \E s \in ScanIds : SpawnChild(s)
    \/ \E s \in ScanIds : \E exit \in ProcessExits : ProcessExit(s, exit)
    \/ \E s \in ScanIds : WaitTimesOut(s)
    \/ \E s \in ScanIds : OrphanExits(s)
    \/ \E id \in ScanIds : DeleteScan(id)
    \/ \E id \in ScanIds : get_scan_results(id)
    \/ \E limit \in ListLimits : ListScans(limit)
    \/ GetStats

SingleScanSpec == Init /\ [][SingleScanNext]_vars

----------------------------------------------------------------------------
(* scanner.py called directly: _normalize_finding and _analyze_tool are plain
   methods of MCPScanner; a call takes its argument and the uuids the process
   has generated so far, and touches nothing else *)

MaxMatches == 2

EmptyDict == [k \in {} |-> NULL]

\* the parts a raw record of the external tool is put together from: for each
\* pair of keys the normalizer reads, neither key, one of them, or both
IdPart == { EmptyDict, "id" :> ExtId(1) }

RiskPart ==
    { EmptyDict,
      "risk_level" :> "high",
      "risk_level" :> "MEDIUM",
      "severity" :> "Critical",
      "severity" :> "severe",
      "severity" :> NULL,
      ("risk_level" :> "low") @@ ("severity" :> "info") }

ToolPart ==
    { EmptyDict,
      "tool_name" :> "sendEmail",
      "tool" :> "readFile",
      ("tool_name" :> "sendEmail") @@ ("tool" :> "readFile") }

DetailPart ==
    { EmptyDict,
      [vulnerability_type |-> "tool_poisoning", description |-> "hidden text",
       evidence |-> "excerpt", remediation |-> "remove it",
       owasp_mapping |-> "LLM02"],
      [type |-> "data_exfiltration", message |-> "sends data away",
       details |-> "curl", fix |-> "block it"],
      [vulnerability_type |-> "tool_poisoning", type |-> "data_exfiltration",
       description |-> "hidden text", message |-> "sends data away",
       evidence |-> NULL, details |-> "curl",
       remediation |-> "remove it", fix |-> "block it"] }

RawRecords ==
    { a @@ b @@ c @@ d : a \in IdPart, b \in RiskPart, c \in ToolPart,
                         d \in DetailPart }

\* a subset of 1..n with at most MaxMatches elements
FewOf(n) == { S \in SUBSET (1..n) : Cardinality(S) <= MaxMatches }

\* tool descriptors: a description is the set of rules that match it
ToolDescriptors ==
    [ name : {"lookup"}, inj : FewOf(Len(INJECTION_PATTERNS)),
      shadow : FewOf(Len(SHADOWING_PATTERNS)) ]

\* a ScanOptions object with every field set by the client
DeepAuthOptions ==
    [present |-> TRUE, timeout |-> 60, auth_header |-> "Bearer token",
     deep_scan |-> TRUE]

\* the arguments of one pattern scan
PatternRequests ==
    [target : Targets, scan_type : ScanType,
     options : {NoOptions, DefaultOptions, DeepAuthOptions}]

MaxLines == 4

MaxItems == 2

LineHighMedium ==
    [words |-> {"HIGH", "MEDIUM", "exfil"}, dash |-> FALSE,
     tool |-> "readFile", text |-> "HIGH MEDIUM exfil Tool: readFile"]

LineCriticalMedium ==
    [words |-> {"CRITICAL", "MEDIUM"}, dash |-> FALSE,
     tool |-> NULL, text |-> "CRITICAL (was MEDIUM) poisoned description"]

\* a detail line that names a level: the test of line 156 comes first
LineDashHigh ==
    [words |-> {"HIGH"}, dash |-> TRUE, tool |-> NULL, text |-> "- HIGH confidence"]

LineDashIndented ==
    [words |-> {}, dash |-> TRUE, tool |-> NULL, text |-> "- reads ~/.ssh/id_rsa"]

LinePlain ==
    [words |-> {}, dash |-> FALSE, tool |-> NULL, text |-> "Scanning 4 tools"]

\* a JSON string: one line, and the word HIGH is in it
LineJsonString ==
    [words |-> {"HIGH"}, dash |-> FALSE, tool |-> NULL,
     text |-> "\"HIGH risk in sendEmail\""]

JsonString == [kind |-> "json_other", lines |-> <<LineJsonString>>]

\* the lines a report is put together from
ReportLines ==
    { LineCriticalHigh, LineHighMedium, LineCriticalMedium, LineMedium,
      LineDash, LineDashIndented, LineDashHigh, LineEmpty, LinePlain }

\* the sequences over S of length lo..hi
SeqsOf(S, lo, hi) == UNION { [1..n -> S] : n \in lo..hi }

\* stdout that json.loads rejects: between one and MaxLines lines
TextStdouts ==
    { [kind |-> "text", lines |-> ls] : ls \in SeqsOf(ReportLines, 1, MaxLines) }

\* stdout that is a JSON array of up to MaxItems records
JsonArrayStdouts ==
    { [kind |-> "json_array", items |-> its] :
        its \in SeqsOf({ItemWithId, ItemWithoutId, ItemSevere, ItemNullSeverity},
                       0, MaxItems) }

ParserInputs == TextStdouts \cup JsonArrayStdouts \cup {JsonObject, JsonString}

CallInputs ==
    { [fn |-> "input", method |-> "_normalize_finding", arg |-> r] : r \in RawRecords }
    \cup { [fn |-> "input", method |-> "_analyze_tool", arg |-> t] : t \in ToolDescriptors }
    \cup { [fn |-> "input", method |-> "_parse_mcp_scan_output", arg |-> out] :
               out \in ParserInputs }
    \cup { [fn |-> "input", method |-> "_scan_with_patterns", arg |-> <<a, b>>] :
               a \in PatternRequests, b \in PatternRequests }

\* the record is normalized, its result is normalized, and the record is
\* normalized once more
NormalizeCalls ==
    /\ call.fn = "input" /\ call.method = "_normalize_finding"
    /\ \E first \in {_normalize_finding(call.arg, nextUuid)} :
           call' = [ fn    |-> "_normalize_finding",
                     arg   |-> call.arg,
                     first |-> first,
                     twice |-> IF first.raised THEN first
                               ELSE _normalize_finding(first.finding, nextUuid + 1),
                     again |-> _normalize_finding(call.arg, nextUuid + 2) ]
    /\ nextUuid' = nextUuid + 3
    /\ UNCHANGED <<mcp_scan_available, scans, vulnerabilities, tasks, child,
                   nextScan, now>>

\* the descriptor is analyzed twice
AnalyzeCalls ==
    /\ call.fn = "input" /\ call.method = "_analyze_tool"
    /\ \E first \in {_analyze_tool(call.arg, nextUuid)} :
           /\ call' = [ fn    |-> "_analyze_tool",
                        arg   |-> call.arg,
                        first |-> first,
                        again |-> _analyze_tool(call.arg, nextUuid + Len(first)) ]
           /\ nextUuid' = nextUuid + 2 * Len(first)
    /\ UNCHANGED <<mcp_scan_available, scans, vulnerabilities, tasks, child,
                   nextScan, now>>

\* two pattern scans, one after the other
PatternCalls ==
    /\ call.fn = "input" /\ call.method = "_scan_with_patterns"
    /\ \E first \in {_scan_with_patterns(call.arg[1].target, call.arg[1].scan_type,
                                        call.arg[1].options, nextUuid)} :
           /\ call' = [ fn    |-> "_scan_with_patterns",
                        arg   |-> call.arg,
                        first |-> first,
                        again |-> _scan_with_patterns(call.arg[2].target,
                                                      call.arg[2].scan_type,
                                                      call.arg[2].options,
                                                      nextUuid + Len(first)) ]
           /\ nextUuid' = nextUuid + 2 * Len(first)
    /\ UNCHANGED <<mcp_scan_available, scans, vulnerabilities, tasks, child,
                   nextScan, now>>

\* stdout is parsed
ParseCalls ==
    /\ call.fn = "input" /\ call.method = "_parse_mcp_scan_output"
    /\ \E result \in {_parse_mcp_scan_output(call.arg, nextUuid)} :
           /\ call' = [ fn     |-> "_parse_mcp_scan_output",
                        arg    |-> call.arg,
                        u      |-> nextUuid,
                        result |-> result ]
           /\ nextUuid' = nextUuid + (IF result.raised THEN 0 ELSE result.used)
    /\ UNCHANGED <<mcp_scan_available, scans, vulnerabilities, tasks, child,
                   nextScan, now>>

MethodInit == ProcessStarted /\ call \in CallInputs

MethodNext == NormalizeCalls \/ AnalyzeCalls \/ ParseCalls \/ PatternCalls

MethodSpec == MethodInit /\ [][MethodNext]_vars

----------------------------------------------------------------------------
(* Properties *)

Terminal == {"completed", "failed"}

\* the rows of table vulnerabilities a finding list becomes for scan_id
RowsOf(findings, scan_id) ==
    [i \in 1..Len(findings) |-> VulnRow(findings[i], scan_id)]

\* the rows the store holds for scan_id
Owned(scan_id) == VulnsOf(vulnerabilities, scan_id)

\* a finding list without the generated ids
WithoutIds(findings) ==
    [i \in 1..Len(findings) |->
        [k \in DOMAIN findings[i] \ {"id"} |-> findings[i][k]]]

Done(s) == s \in DOMAIN tasks /\ tasks[s].pc = "done"

\* what the Pattern Detection Engine produces for the target of scan s
PatternFindingsFor(s) ==
    _scan_with_patterns(tasks[s].request.target, tasks[s].request.scan_type,
                     tasks[s].request.options, 0)

\* C1: a record is created RUNNING, and once its status is COMPLETED or FAILED
\* no step changes the status again; a deleted record does not come back.
C1_StatusOnlyForward ==
    [][\A s \in ScanIds :
          /\ (s \notin DOMAIN scans /\ s \in DOMAIN scans')
                => (scans'[s].status = "running" /\ s \notin DOMAIN tasks)
          /\ (s \in DOMAIN scans /\ s \in DOMAIN scans'
              /\ scans[s].status \in Terminal)
                => scans'[s].status = scans[s].status
          /\ (s \in DOMAIN scans /\ s \in DOMAIN scans'
              /\ scans'[s].status # scans[s].status)
                => (scans[s].status = "running" /\ scans'[s].status \in Terminal)
      ]_vars

\* C1 witness: one record COMPLETED and another FAILED after update_scan
\* raised part-way, side by side
C1_Witness ==
    \E a, b \in DOMAIN scans :
        /\ scans[a].status = "completed" /\ Done(a)
        /\ scans[b].status = "failed" /\ Done(b) /\ ~tasks[b].ret.raised

\* C2: whenever a row is written to table vulnerabilities, its scan_id is the
\* id of a record that exists.
C2_FindingReferencesExistingScan ==
    [][\A i \in 1..Len(vulnerabilities') :
          (\A j \in 1..Len(vulnerabilities) :
              vulnerabilities[j].id # vulnerabilities'[i].id)
            => vulnerabilities'[i].scan_id \in DOMAIN scans'
      ]_vars

\* C3: once the adapter has returned the timeout outcome, the child process
\* it started is not running.
C3_TimeoutKillsChild ==
    \A s \in ScanIds :
        (Done(s) /\ tasks[s].ret.via = "timeout") => child[s].state # "running"

\* C4: when the wait times out, scan returns exactly one finding (INFO,
\* "timeout", "scanner") and does not raise; the record, while it exists, is
\* COMPLETED and owns exactly that finding.
C4_TimeoutIsOneInfoFinding ==
    \A s \in ScanIds :
        (Done(s) /\ tasks[s].event.kind = "timeout") =>
            /\ ~tasks[s].ret.raised
            /\ Len(tasks[s].ret.findings) = 1
            /\ tasks[s].ret.findings[1].risk_level = "INFO"
            /\ tasks[s].ret.findings[1].vulnerability_type = "timeout"
            /\ tasks[s].ret.findings[1].tool_name = "scanner"
            /\ s \in DOMAIN scans =>
                /\ scans[s].status = "completed"
                /\ Owned(s) = RowsOf(tasks[s].ret.findings, s)

\* C4 witness: a scan timed out while another scan had already stored
\* findings, and its record is COMPLETED
C4_Witness ==
    \E s, o \in DOMAIN scans :
        /\ s # o /\ Owned(o) # << >>
        /\ Done(s) /\ tasks[s].event.kind = "timeout"
        /\ scans[s].status = "completed" /\ Len(Owned(s)) = 1

\* C5: when scan() has returned a finding list, the record is COMPLETED and
\* the rows stored for the scan are exactly that list.
C5_ReturnedFindingsAllPersisted ==
    \A s \in ScanIds :
        (Done(s) /\ ~tasks[s].ret.raised /\ s \in DOMAIN scans) =>
            /\ scans[s].status = "completed"
            /\ Owned(s) = RowsOf(tasks[s].ret.findings, s)

\* C6: when scan() has raised, the record is FAILED with the exception's
\* message as error and the scan owns no findings; a record with an error is
\* FAILED.
C6_RaiseMeansFailedWithMessage ==
    /\ \A s \in ScanIds :
          (Done(s) /\ tasks[s].ret.raised) =>
              /\ Owned(s) = << >>
              /\ s \in DOMAIN scans =>
                    (scans[s].status = "failed" /\ scans[s].error = tasks[s].ret.exc)
    /\ \A s \in DOMAIN scans :
          scans[s].error # NULL => scans[s].status = "failed"

\* C6 witness: scan() raised and the record is FAILED with the message
C6_Witness ==
    \E s \in DOMAIN scans :
        /\ Done(s) /\ tasks[s].ret.raised
        /\ scans[s].status = "failed"
        /\ scans[s].error = "'ScanOptions' object has no attribute 'get'"

\* C7: what a reader gets from get_scan, in any state: a RUNNING scan has no
\* findings, and a COMPLETED scan has the whole list its scan() returned.
C7_ReadersSeeWholeBatch ==
    \A id \in ScanIds :
        LET r == get_scan(Db, id)
        IN  r.found =>
              /\ r.status = "running" => r.vulnerabilities = << >>
              /\ r.status = "completed" =>
                    /\ Done(id)
                    /\ r.vulnerabilities = RowsOf(tasks[id].ret.findings, id)
                    /\ r.summary.total = Len(tasks[id].ret.findings)

\* C7 witness: a reader can get a COMPLETED scan with two findings while
\* another scan is RUNNING and its child process is being awaited
C7_Witness ==
    \E id, o \in ScanIds :
        /\ get_scan(Db, id).found /\ get_scan(Db, id).status = "completed"
        /\ Len(get_scan(Db, id).vulnerabilities) = 2
        /\ get_scan(Db, o).found /\ get_scan(Db, o).status = "running"
        /\ tasks[o].pc = "awaiting"

\* the invocation of the tool failed with something other than a timeout
InvocationFailed(s) ==
    \/ tasks[s].event.kind = "spawn_error"
    \/ /\ tasks[s].event.kind = "exit"
       /\ \/ tasks[s].event.stdout.kind = "undecodable"
          \/ _parse_mcp_scan_output(tasks[s].event.stdout, 0).raised

\* C8: when the invocation fails with something other than a timeout, scan
\* does not raise and returns the pattern engine's findings for the target.
C8_FailureFallsBackToPatterns ==
    \A s \in ScanIds :
        (Done(s) /\ InvocationFailed(s)) =>
            /\ ~tasks[s].ret.raised
            /\ WithoutIds(tasks[s].ret.findings) = WithoutIds(PatternFindingsFor(s))
            /\ \A i \in 1..Len(tasks[s].ret.findings) :
                  tasks[s].ret.findings[i].id.src = "uuid4"

\* C8 witness: normalizing the tool's output raised, and the scan returned
\* the seven findings of the pattern engine
C8_Witness ==
    \E s \in ScanIds :
        /\ Done(s) /\ tasks[s].event.kind = "exit"
        /\ tasks[s].event.stdout = JsonNullSeverity
        /\ Len(tasks[s].ret.findings) = 7

\* C9: when the child exits with a non-zero status, the scan result is the
\* pattern engine's finding list.
C9_CrashFallsBackToPatterns ==
    \A s \in ScanIds :
        (Done(s) /\ tasks[s].event.kind = "exit" /\ tasks[s].event.returncode # 0)
            => WithoutIds(tasks[s].ret.findings) = WithoutIds(PatternFindingsFor(s))

\* C10: scan() never raises: whatever the request, a finished scan returned
\* a finding list.
C10_ScanNeverRaises ==
    \A s \in ScanIds : Done(s) => ~tasks[s].ret.raised

\* C11: every record that is RUNNING eventually is not: with its background
\* task scheduled and the wait ending by exit or by timeout, the record becomes
\* COMPLETED or FAILED (or has been deleted by then).
C11_EveryScanLeavesRunning ==
    \A s \in ScanIds :
        (s \in DOMAIN scans /\ scans[s].status = "running")
            ~> (s \notin DOMAIN scans \/ scans[s].status \in Terminal)

\* C11 witness: a record that was awaiting its child left RUNNING through the
\* timeout, and another left RUNNING because scan() raised
C11_Witness ==
    \E s, o \in DOMAIN scans :
        /\ Done(s) /\ tasks[s].event.kind = "timeout"
        /\ scans[s].status \in Terminal /\ scans[s].completed_at # NullTime
        /\ Done(o) /\ tasks[o].ret.raised /\ scans[o].status = "failed"

\* the number of rows of table vulnerabilities with this scan_id and a risk
\* level among levels
NumOwned(scan_id, levels) ==
    Cardinality({i \in 1..Len(vulnerabilities) :
                    /\ vulnerabilities[i].scan_id = scan_id
                    /\ vulnerabilities[i].risk_level \in levels})

AnyLevel == {vulnerabilities[i].risk_level : i \in 1..Len(vulnerabilities)}

SummaryLevels == {"CRITICAL", "HIGH", "MEDIUM", "LOW"}

\* C12: for every record, in every state, the summary get_scan returns has
\* total = the number of rows stored for the scan, critical/high/medium/low =
\* the number of those rows with that risk level, and total = the four counts
\* plus the rows with any other level.
C12_SummaryCountsOwnedFindings ==
    \A s \in DOMAIN scans :
        LET summary == get_scan(Db, s).summary
        IN  /\ summary.total = NumOwned(s, AnyLevel)
            /\ summary.critical = NumOwned(s, {"CRITICAL"})
            /\ summary.high = NumOwned(s, {"HIGH"})
            /\ summary.medium = NumOwned(s, {"MEDIUM"})
            /\ summary.low = NumOwned(s, {"LOW"})
            /\ summary.total = summary.critical + summary.high + summary.medium
                                + summary.low + NumOwned(s, AnyLevel \ SummaryLevels)

\* C12 witness: one record with a CRITICAL and a HIGH finding, and another
\* whose only finding is INFO, so that its total is more than the four counts
C12_Witness ==
    \E s, o \in DOMAIN scans :
        /\ get_scan(Db, s).summary.total = 2
        /\ get_scan(Db, s).summary.critical = 1
        /\ get_scan(Db, s).summary.high = 1
        /\ get_scan(Db, o).summary.total = 1
        /\ get_scan(Db, o).summary.critical + get_scan(Db, o).summary.high
           + get_scan(Db, o).summary.medium + get_scan(Db, o).summary.low = 0

\* C13: every row of table vulnerabilities has a risk_level among CRITICAL,
\* HIGH, MEDIUM, LOW, INFO, whichever source the finding came from.
C13_PersistedRiskLevelInEnum ==
    \A i \in 1..Len(vulnerabilities) : vulnerabilities[i].risk_level \in RiskLevel

\* a record was created for the scan and delete_scan has removed it
Deleted(scan_id) == scan_id \in DOMAIN tasks /\ scan_id \notin DOMAIN scans

\* C14: once delete_scan has succeeded for a scan, in every later state the
\* store holds no row with that scan_id and get_scan returns None for it, also
\* after the background task of the scan has finished.
C14_DeletedScanLeavesNothing ==
    \A s \in ScanIds :
        Deleted(s) => (Owned(s) = << >> /\ ~get_scan(Db, s).found)

\* C15: delete_scan for a scan_id that has no record returns False and leaves
\* both tables as they are.
C15_DeleteUnknownChangesNothing ==
    \A id \in ScanIds :
        id \notin DOMAIN scans =>
            /\ ~delete_scan(Db, id).ok
            /\ delete_scan(Db, id).scans = scans
            /\ delete_scan(Db, id).vulnerabilities = vulnerabilities

\* C15 witness: delete_scan returns False for a scan that was deleted while
\* it ran and whose rows came into the table afterwards, next to another
\* scan's record and rows
C15_Witness ==
    \E id, o \in ScanIds :
        /\ Deleted(id) /\ Owned(id) # << >>
        /\ o \in DOMAIN scans /\ Owned(o) # << >>
        /\ ~delete_scan(Db, id).ok

\* C16: list_scans(limit) returns the records most recently started first, at
\* most limit of them (none for a limit below 1) for every integer limit, each
\* with an empty vulnerabilities list and the summary get_scan computes.
C16_ListNewestFirstWithinLimit ==
    \A limit \in ListLimits :
        LET r == list_scans(Db, limit)
        IN  /\ \A i, j \in 1..Len(r) : i < j => r[i].started_at >= r[j].started_at
            /\ Len(r) <= IF limit < 0 THEN 0 ELSE limit
            /\ \A i \in 1..Len(r) :
                  /\ r[i].vulnerabilities = << >>
                  /\ r[i].summary = get_scan(Db, r[i].scan_id).summary

\* what _scan_with_mcp_scan can give scan(): the parsed output, the timeout
\* finding, the result of its own fallback, or the exception of line 104
AdapterOutcomes == {"external", "timeout", "fallback", "raised"}

\* C17: the flag recorded by __init__ never changes, and every scan that
\* finishes was routed by it: with the flag set the adapter ran and scan()
\* gave what the adapter gave (the pattern engine only as the adapter's own
\* fallback), without it only the pattern engine ran and no process was
\* started.
C17_RoutedByRecordedFlag ==
    [][/\ mcp_scan_available' = mcp_scan_available
       /\ \A s \in ScanIds :
            (~Done(s) /\ Done(s)') =>
                IF mcp_scan_available
                THEN /\ tasks'[s].ret.via \in AdapterOutcomes
                     /\ tasks'[s].pattern_runs = 1 <=> tasks'[s].ret.via = "fallback"
                     /\ tasks'[s].ret.via \in {"external", "timeout"}
                            => child'[s].spawns = 1
                ELSE /\ tasks'[s].ret.via = "patterns"
                     /\ tasks'[s].pattern_runs = 1
                     /\ child'[s].spawns = 0
                     /\ WithoutIds(tasks'[s].ret.findings)
                            = WithoutIds(PatternFindingsFor(s))
      ]_vars

\* C17 witness: with the flag set, one scan returned the tool's parsed output
\* and another the adapter's fallback; the flag is still set
C17_Witness ==
    /\ mcp_scan_available
    /\ \E s, o \in ScanIds :
          /\ Done(s) /\ tasks[s].ret.via = "external"
          /\ Done(o) /\ tasks[o].ret.via = "fallback" /\ tasks[o].pattern_runs = 1

\* C18: within one scan create_subprocess_exec is called at most once and
\* _scan_with_patterns at most once; a scan whose invocation failed took the
\* one fallback step and is finished, and a scan whose scan() raised is
\* finished with its record FAILED.
C18_NoStrategyRetried ==
    \A s \in DOMAIN tasks :
        /\ child[s].spawns <= 1
        /\ tasks[s].pattern_runs <= 1
        /\ tasks[s].event.kind \in {"spawn_error", "exit", "timeout"} =>
              (Done(s) /\ child[s].spawns = 1)
        /\ (tasks[s].event.kind # "none" /\ InvocationFailed(s)) =>
              (tasks[s].pattern_runs = 1 /\ tasks[s].ret.via = "fallback")
        /\ tasks[s].ret.raised =>
              /\ Done(s) /\ tasks[s].pattern_runs = 0
              /\ s \in DOMAIN scans => scans[s].status = "failed"

\* C18 witness: one scan whose process could not be started fell back once,
\* and another that timed out started one process and never ran the patterns
C18_Witness ==
    \E s, o \in DOMAIN tasks :
        /\ tasks[s].event.kind = "spawn_error"
        /\ child[s].spawns = 1 /\ tasks[s].pattern_runs = 1
        /\ tasks[o].event.kind = "timeout"
        /\ child[o].spawns = 1 /\ tasks[o].pattern_runs = 0

FindingFields ==
    {"id", "tool_name", "vulnerability_type", "risk_level", "description",
     "evidence", "owasp_mapping", "remediation"}

\* the value a raw record has under the first of the two keys, else under
\* the second, else the default
Resolved(item, key, alias, default) ==
    IF key \in DOMAIN item THEN item[key]
    ELSE IF alias \in DOMAIN item THEN item[alias]
    ELSE default

\* C19: for a raw record r the normalizer accepts, normalizing the result
\* again changes none of the eight fields; a second normalization of r gives
\* the same fields, the id included when r has one and a fresh id otherwise;
\* each pair of keys resolves to the same value each time.  A record the
\* normalizer rejects is rejected each time.
C19_NormalizeIdempotent ==
    call.fn = "_normalize_finding" =>
        IF call.first.raised THEN call.again.raised
        ELSE LET r == call.arg
                 f == call.first.finding
             IN  /\ DOMAIN f = FindingFields
                 /\ ~call.twice.raised /\ ~call.again.raised
                 /\ \A k \in FindingFields : call.twice.finding[k] = f[k]
                 /\ \A k \in FindingFields \ {"id"} : call.again.finding[k] = f[k]
                 /\ IF "id" \in DOMAIN r
                    THEN call.again.finding.id = r.id /\ f.id = r.id
                    ELSE f.id.src = "uuid4" /\ call.again.finding.id.src = "uuid4"
                 /\ f.tool_name = Resolved(r, "tool_name", "tool", "unknown")
                 /\ f.description = Resolved(r, "description", "message", "")
                 /\ f.evidence = Resolved(r, "evidence", "details", NULL)
                 /\ f.remediation = Resolved(r, "remediation", "fix", NULL)
                 /\ f.risk_level = Upper(Resolved(r, "risk_level", "severity", "MEDIUM"))

\* C19 witness: a record without id that names its fields by the second key
\* of each pair was normalized; the two normalizations differ in the id only
C19_Witness ==
    /\ call.fn = "_normalize_finding" /\ ~call.first.raised
    /\ DOMAIN call.arg = {"severity", "tool", "type", "message", "details", "fix"}
    /\ call.first.finding.risk_level = "CRITICAL"
    /\ call.twice.finding = call.first.finding
    /\ call.again.finding.id # call.first.finding.id

\* the k-th smallest element of a set of rule indices
Nth(S, k) == CHOOSE x \in S : Cardinality({y \in S : y < x}) = k - 1

\* C20: _analyze_tool gives one finding per rule that matches and none for
\* the others: first a HIGH prompt_injection finding for each matching
\* injection rule in list order, then a CRITICAL tool_shadowing finding for
\* each matching shadowing rule in list order; nothing when no rule matches;
\* a second call gives the same sequence apart from the generated ids.
C20_OneFindingPerMatchedRule ==
    call.fn = "_analyze_tool" =>
        LET t == call.arg
            f == call.first
            ni == Cardinality(t.inj)
            ns == Cardinality(t.shadow)
        IN  /\ Len(f) = ni + ns
            /\ \A k \in 1..ni :
                  /\ f[k].vulnerability_type = "prompt_injection"
                  /\ f[k].risk_level = "HIGH"
                  /\ f[k].tool_name = t.name
                  /\ f[k].description =
                        "Potential prompt injection: " \o INJECTION_PATTERNS[Nth(t.inj, k)]
                  /\ f[k].evidence = _extract_evidence(t, "inj", Nth(t.inj, k))
            /\ \A k \in 1..ns :
                  /\ f[ni + k].vulnerability_type = "tool_shadowing"
                  /\ f[ni + k].risk_level = "CRITICAL"
                  /\ f[ni + k].tool_name = t.name
                  /\ f[ni + k].evidence = _extract_evidence(t, "shadow", Nth(t.shadow, k))
            /\ WithoutIds(call.again) = WithoutIds(f)
            /\ \A i, j \in 1..Len(f) :
                  /\ f[i].id # call.again[j].id
                  /\ i # j => f[i].id # f[j].id

\* C20 witness: a description that matches two injection rules and two
\* shadowing rules was analyzed and gave four findings
C20_Witness ==
    /\ call.fn = "_analyze_tool"
    /\ Cardinality(call.arg.inj) = 2 /\ Cardinality(call.arg.shadow) = 2
    /\ Len(call.first) = 4
    /\ call.first[2].risk_level = "HIGH" /\ call.first[3].risk_level = "CRITICAL"

\* the parser was called on stdout and returned or raised
Parsed == call.fn = "_parse_mcp_scan_output"

\* each element of items normalized in order, u uuids generated before
NormalizedInOrder(items, u) ==
    LET each == [k \in 1..Len(items) |-> _normalize_finding(items[k], u + k - 1)]
    IN  IF \E k \in 1..Len(items) : each[k].raised
        THEN [raised |-> TRUE,
              exc |-> each[CHOOSE k \in 1..Len(items) :
                               /\ each[k].raised
                               /\ \A j \in 1..(k - 1) : ~each[j].raised].exc]
        ELSE [raised |-> FALSE,
              findings |-> [k \in 1..Len(items) |-> each[k].finding],
              used |-> Len(items)]

\* the line-oriented text parser on the lines of stdout
TextParserResult(lines, u) ==
    LET r == ParseLines(lines, << >>, << >>, u)
    IN  [raised |-> FALSE, findings |-> r.findings, used |-> r.used - u]

\* C21: output parsing has exactly two modes: stdout that parses as a JSON
\* array gives each element normalized in order, and every other stdout
\* (valid JSON of another shape included) gives what the line-oriented text
\* parser gives on that stdout.
C21_JsonArrayOrTextParser ==
    Parsed =>
        call.result = IF call.arg.kind = "json_array"
                      THEN NormalizedInOrder(call.arg.items, call.u)
                      ELSE TextParserResult(call.arg.lines, call.u)

\* the levels the text parser looks for
RiskKeywords == {"CRITICAL", "HIGH", "MEDIUM"}

\* the indices of the lines that contain a risk keyword, in line order
KeywordLines(lines) ==
    SelectSeq([i \in 1..Len(lines) |-> i],
              LAMBDA i : lines[i].words \cap RiskKeywords # {})

\* the parser was called on stdout that is not JSON
ParsedText == Parsed /\ call.arg.kind = "text"

\* C22: in text parsing the risk_level of the finding a line starts is chosen
\* with precedence CRITICAL, then HIGH, then MEDIUM: CRITICAL and HIGH on one
\* line give CRITICAL, HIGH and MEDIUM on one line give HIGH.
C22_CriticalBeforeHighBeforeMedium ==
    ParsedText =>
        LET lines == call.arg.lines
            kw    == KeywordLines(lines)
            found == call.result.findings
        IN  \A k \in 1..Len(kw) :
                k <= Len(found) =>
                    found[k].risk_level =
                        IF "CRITICAL" \in lines[kw[k]].words THEN "CRITICAL"
                        ELSE IF "HIGH" \in lines[kw[k]].words THEN "HIGH"
                        ELSE "MEDIUM"

\* the detail lines of the keyword line at index i: the lines after it that
\* start with a dash and contain no keyword, up to the next keyword line
DetailLines(lines, i) ==
    SelectSeq([j \in 1..Len(lines) |-> j],
              LAMBDA j : /\ j > i
                         /\ lines[j].dash
                         /\ lines[j].words \cap RiskKeywords = {}
                         /\ \A m \in (i + 1)..j :
                                lines[m].words \cap RiskKeywords = {})

RECURSIVE JoinLines(_, _)
JoinLines(lines, idx) ==
    IF idx = << >> THEN ""
    ELSE lines[Head(idx)].text \o "\n" \o JoinLines(lines, Tail(idx))

\* C23: the text parser returns one finding per line that contains a risk
\* keyword, in line order (the last one flushed at end of output); the
\* evidence of a finding is made of the dash lines without keyword between
\* its keyword line and the next one, and of no other line; a dash line
\* before the first keyword line is ignored.
C23_OneFindingPerKeywordLine ==
    ParsedText =>
        LET lines == call.arg.lines
            kw    == KeywordLines(lines)
            found == call.result.findings
        IN  /\ ~call.result.raised
            /\ Len(found) = Len(kw)
            /\ \A k \in 1..Len(kw) :
                   LET detail == DetailLines(lines, kw[k])
                   IN  /\ found[k].description = lines[kw[k]].text
                       /\ found[k].id = Uuid(call.u + k)
                       /\ found[k].evidence =
                              IF detail = << >> THEN NULL
                              ELSE JoinLines(lines, detail)

\* a report of four lines: a dash line with no finding in progress, a keyword
\* line, its detail line, and a second keyword line that ends the output
C23_Witness ==
    /\ ParsedText
    /\ Len(call.arg.lines) = 4
    /\ KeywordLines(call.arg.lines) = <<2, 4>>
    /\ call.arg.lines[1].dash /\ call.arg.lines[3].dash
    /\ Len(call.result.findings) = 2
    /\ call.result.findings[1].evidence = call.arg.lines[3].text \o "\n"
    /\ call.result.findings[2].evidence = NULL

\* two pattern scans were made, with the arguments call.arg[1] and call.arg[2]
PatternScanned == call.fn = "_scan_with_patterns"

\* the results of _analyze_tool on each descriptor, one after the other
RECURSIVE PerDescriptor(_)
PerDescriptor(tools) ==
    IF tools = << >> THEN << >>
    ELSE WithoutIds(_analyze_tool(Head(tools), 0)) \o PerDescriptor(Tail(tools))

\* C24: on the pattern-detection path the findings are the per-descriptor
\* results concatenated in descriptor order, and two scans that differ in
\* target, scan_type, deep_scan or auth_header return the same finding
\* sequence up to the generated ids.
C24_PatternResultIgnoresRequest ==
    PatternScanned =>
        /\ WithoutIds(call.first) = PerDescriptor(_get_demo_tools(call.arg[1].target))
        /\ WithoutIds(call.again) = PerDescriptor(_get_demo_tools(call.arg[2].target))
        /\ WithoutIds(call.first) = WithoutIds(call.again)

\* two scans that differ in all four arguments, each with the seven findings
\* of the demo tools, no id in both
C24_Witness ==
    /\ PatternScanned
    /\ call.arg[1].target # call.arg[2].target
    /\ call.arg[1].scan_type # call.arg[2].scan_type
    /\ call.arg[1].options = DefaultOptions
    /\ call.arg[2].options = DeepAuthOptions
    /\ Len(call.first) = 7 /\ Len(call.again) = 7
    /\ \A i, j \in 1..7 : call.first[i].id # call.again[j].id

\* C25: a record whose status is FAILED owns no findings, also when the
\* failure arises while update_scan is inserting a returned finding list and
\* run_scan_task records the failure on the same connection.
C25_FailedRecordOwnsNothing ==
    \A s \in DOMAIN scans :
        scans[s].status = "failed" => Owned(s) = << >>

\* the sum over the records ids of the count their summary gives under key
RECURSIVE SumOfSummaries(_, _)
SumOfSummaries(ids, key) ==
    IF ids = {} THEN 0
    ELSE LET s == CHOOSE x \in ids : TRUE
         IN  get_scan(Db, s).summary[key] + SumOfSummaries(ids \ {s}, key)

\* C26: the aggregate counts of stats() are the sums over the existing scan
\* records of their summary counts (total, critical, high): no finding that
\* belongs to no existing scan is counted.
C26_StatsSumExistingScans ==
    LET stats == get_stats(Db, now)
    IN  /\ stats.total_vulnerabilities = SumOfSummaries(DOMAIN scans, "total")
        /\ stats.critical_count = SumOfSummaries(DOMAIN scans, "critical")
        /\ stats.high_count = SumOfSummaries(DOMAIN scans, "high")

============================================================================
